---------------------------- MODULE Spec2Model ----------------------------
(***************************************************************************)
(* PerformancePulseDashboard: the backend's write path (backend/app.py,    *)
(* module level: read_csv, fillna, derived columns, to_csv, core metrics,  *)
(* app.run), its three Flask routes, and the dashboard's fetch_data.       *)
(*                                                                         *)
(* Numbers are exact rationals n/d in lowest terms (binary rounding of     *)
(* float64 is not modelled).  A CSV file is a sequence of lines, a line a  *)
(* sequence of fields, a field a piece of Text; a DataFrame cell is a      *)
(* typed value (int, float, str, nan), so writing and re-reading a table   *)
(* goes through pandas' formatting and per-column type inference.          *)
(*                                                                         *)
(* to_csv opens the store in place (mode "w": truncation) and its buffer   *)
(* reaches the file at some line boundaries; each run writes at its own    *)
(* handle's offset, counted in lines.  A route's read_csv reads the file   *)
(* as it is at that moment, in one step.  Numeric source columns hold      *)
(* numeric literals or nothing; names and departments hold text or nothing.*)
(***************************************************************************)
EXTENDS Integers, Sequences, FiniteSets, TLC

VARIABLES source, store, pc, df, err, wpos, wstate, core, ingested, lastWriter,
          resp, fpc, fdata, fmetrics, fresult

vars == <<source, store, pc, df, err, wpos, wstate, core, ingested, lastWriter,
          resp, fpc, fdata, fmetrics, fresult>>

(***************************************************************************)
(* Bounds of the model.                                                    *)
(***************************************************************************)
\* longest source table (records) of the single-run specification
MaxRows == 2

(***************************************************************************)
(* Rational arithmetic.                                                    *)
(***************************************************************************)
Abs(n) == IF n < 0 THEN -n ELSE n

RECURSIVE GCD(_, _)
GCD(a, b) == IF b = 0 THEN a ELSE GCD(b, a % b)

\* n/d (d # 0) in lowest terms with a positive denominator
Rat(n, d) ==
    LET g == GCD(Abs(n), Abs(d))
        s == IF d < 0 THEN -1 ELSE 1
    IN  [n |-> (s * n) \div g, d |-> (s * d) \div g]

RatAdd(a, b) ==
    LET g == GCD(a.d, b.d)
    IN  Rat(a.n * (b.d \div g) + b.n * (a.d \div g), (a.d \div g) * b.d)

\* a / b, b # 0
RatDiv(a, b) ==
    LET g1 == GCD(Abs(a.n), Abs(b.n))
        g2 == GCD(a.d, b.d)
    IN  Rat((a.n \div g1) * (b.d \div g2), (a.d \div g2) * (b.n \div g1))

RatMulInt(a, k) ==
    LET g == GCD(a.d, Abs(k))
    IN  Rat(a.n * (k \div g), a.d \div g)

RatDivInt(a, k) ==
    LET g == GCD(Abs(a.n), k)
    IN  Rat(a.n \div g, a.d * (k \div g))

\* a < b, compared over the least common denominator
RatLess(a, b) ==
    LET g == GCD(a.d, b.d)
    IN  a.n * (b.d \div g) < b.n * (a.d \div g)

RatGeq(a, b) == ~RatLess(a, b)

\* round(x, 2): x to the nearest hundredth, a tie to the even hundredth
Round2(a) ==
    LET w  == a.n \div a.d
        r  == a.n - w * a.d
        f  == (100 * r) \div a.d
        m  == 100 * r - f * a.d
        up == \/ 2 * m > a.d
              \/ 2 * m = a.d /\ (100 * w + f) % 2 = 1
    IN  Rat(100 * w + f + (IF up THEN 1 ELSE 0), 100)

(***************************************************************************)
(* Text of a CSV field, and the typed cells of a DataFrame.                *)
(***************************************************************************)
\* the text of an integer literal, a decimal literal, other text, nothing
TInt(n)    == [k |-> "int", n |-> n, d |-> 1, s |-> ""]
TDec(n, d) == [k |-> "dec", n |-> Rat(n, d).n, d |-> Rat(n, d).d, s |-> ""]
TTxt(s)    == [k |-> "txt", n |-> 0, d |-> 1, s |-> s]
TEmpty     == [k |-> "empty", n |-> 0, d |-> 1, s |-> ""]

IntCell(n)      == [t |-> "int", n |-> n, d |-> 1, x |-> TEmpty]
FloatCell(q)    == [t |-> "float", n |-> q.n, d |-> q.d, x |-> TEmpty]
StrCell(x)      == [t |-> "str", n |-> 0, d |-> 1, x |-> x]
NaN             == [t |-> "nan", n |-> 0, d |-> 1, x |-> TEmpty]

IsNum(c)  == c.t \in {"int", "float"}
Val(c)    == [n |-> c.n, d |-> c.d]

\* the codepoint order of the strings the model uses
Lexicon == <<"A", "B", "D", "E", "Eng", "F", "High", "Low", "Medium", "Sales", "ok">>

StrRank(s) == IF \E i \in 1..Len(Lexicon) : Lexicon[i] = s
              THEN CHOOSE i \in 1..Len(Lexicon) : Lexicon[i] = s
              ELSE Len(Lexicon) + 1

(***************************************************************************)
(* Columns.                                                                *)
(***************************************************************************)
SourceColumns == <<"Name", "Department", "ExperienceYears", "ProjectsCompleted",
                   "MonthlySalary", "AttendanceRate (%)", "PerformanceScore",
                   "Feedback">>

Range(s) == {s[i] : i \in 1..Len(s)}

RECURSIVE SeqsUpTo(_, _)
\* the sequences over S of length at most n
SeqsUpTo(S, n) ==
    IF n = 0 THEN {<<>>}
    ELSE LET T == SeqsUpTo(S, n - 1)
         IN  T \cup {Append(t, x) : t \in {u \in T : Len(u) = n - 1}, x \in S}


(***************************************************************************)
(* pandas.read_csv and DataFrame.to_csv.                                   *)
(* A file is [exists, lines]; line 1 is the header.  A DataFrame is        *)
(* [cols, rows], each row a function from column name to cell.             *)
(***************************************************************************)
NoFile == [exists |-> FALSE, lines |-> <<>>]

\* what lies at an offset that was never written after a truncation
Hole == <<TTxt("")>>

Frame(cols, rows) == [cols |-> cols, rows |-> rows]

Failed(exc) == [ok |-> FALSE, exc |-> exc, table |-> Frame(<<>>, <<>>)]
Loaded(t)   == [ok |-> TRUE, exc |-> "", table |-> t]

HasColumn(t, c) == \E i \in 1..Len(t.cols) : t.cols[i] = c

Column(t, c) == [i \in 1..Len(t.rows) |-> t.rows[i][c]]

\* field j of a data line; a short line is padded with empty fields
Field(line, j) == IF j <= Len(line) THEN line[j] ELSE TEmpty

\* the dtype read_csv infers for a column from the text of its fields
InferKind(texts) ==
    IF \A x \in texts : x.k = "int" THEN "int"
    ELSE IF \A x \in texts : x.k \in {"int", "dec", "empty"} THEN "float"
    ELSE "object"

ParseCell(kind, x) ==
    CASE kind = "int"   -> IntCell(x.n)
      [] kind = "float" -> IF x.k = "empty" THEN NaN ELSE FloatCell(Rat(x.n, x.d))
      [] OTHER          -> IF x.k = "empty" THEN NaN ELSE StrCell(x)

ReadCsv(f) ==
    IF ~f.exists THEN Failed("FileNotFoundError")
    ELSE IF Len(f.lines) = 0 THEN Failed("EmptyDataError")
    ELSE LET header == f.lines[1]
             cols   == [j \in 1..Len(header) |-> header[j].s]
             data   == SubSeq(f.lines, 2, Len(f.lines))
             kind   == [j \in 1..Len(cols) |->
                          InferKind({Field(data[i], j) : i \in 1..Len(data)})]
             at(c)  == CHOOSE j \in 1..Len(cols) : cols[j] = c
         IN  IF \E i \in 1..Len(data) : Len(data[i]) > Len(cols)
             THEN Failed("ParserError")
             ELSE Loaded(Frame(cols,
                    [i \in 1..Len(data) |->
                       [c \in Range(cols) |->
                          ParseCell(kind[at(c)], Field(data[i], at(c)))]]))

\* the text to_csv writes for a cell
FormatCell(c) ==
    CASE c.t = "int"   -> TInt(c.n)
      [] c.t = "float" -> TDec(c.n, c.d)
      [] c.t = "str"   -> c.x
      [] OTHER         -> TEmpty

\* the lines of to_csv(index=False): the header, then one line per record
ToCsv(t) ==
    <<[j \in 1..Len(t.cols) |-> TTxt(t.cols[j])]>> \o
    [i \in 1..Len(t.rows) |->
       [j \in 1..Len(t.cols) |-> FormatCell(t.rows[i][t.cols[j]])]]

(***************************************************************************)
(* The ingestor's fillna and the two derived columns.                      *)
(***************************************************************************)
\* fillna(0): a float64 column takes 0.0, an object column the integer 0
FillCell(t, c, cell) ==
    IF cell.t # "nan" THEN cell
    ELSE IF \E i \in 1..Len(t.rows) : t.rows[i][c].t = "str"
         THEN IntCell(0) ELSE FloatCell(Rat(0, 1))

Fillna(t) ==
    Frame(t.cols, [i \in 1..Len(t.rows) |->
                     [c \in Range(t.cols) |-> FillCell(t, c, t.rows[i][c])]])

\* df[c] = values: the column is replaced, or appended as the last column
SetColumn(t, c, values) ==
    Frame(IF HasColumn(t, c) THEN t.cols ELSE Append(t.cols, c),
          [i \in 1..Len(t.rows) |->
             [k \in Range(t.cols) \cup {c} |->
                IF k = c THEN values[i] ELSE t.rows[i][k]]])

\* a variant of ReplaceZero: years below 1 are raised to 1 (a clamp)
ReplaceBelowOne(cell) ==
    IF IsNum(cell) /\ RatLess(Val(cell), Rat(1, 1))
    THEN (IF cell.t = "int" THEN IntCell(1) ELSE FloatCell(Rat(1, 1)))
    ELSE cell

\* Series.replace(0, 1)
ReplaceZero(cell) ==
    IF IsNum(cell) /\ cell.n = 0
    THEN (IF cell.t = "int" THEN IntCell(1) ELSE FloatCell(Rat(1, 1)))
    ELSE cell

\* (projects / years) * 10 on two numeric cells, years # 0
EfficiencyOf(projects, years) ==
    FloatCell(RatMulInt(RatDiv(Val(projects), Val(ReplaceZero(years))), 10))

HighMin   == Rat(45, 10)
MediumMin == Rat(35, 10)

\* a variant of LevelOf: the thresholds compared with > instead of >=
LevelOfStrict(x) ==
    IF x.t # "nan" /\ RatLess(HighMin, Val(x)) THEN "High"
    ELSE IF x.t # "nan" /\ RatLess(MediumMin, Val(x)) THEN "Medium"
    ELSE "Low"

\* 'High' if x >= 4.5 else 'Medium' if x >= 3.5 else 'Low'
LevelOf(x) ==
    IF x.t # "nan" /\ RatGeq(Val(x), HighMin) THEN "High"
    ELSE IF x.t # "nan" /\ RatGeq(Val(x), MediumMin) THEN "Medium"
    ELSE "Low"

(***************************************************************************)
(* The aggregator: Series.mean, round, idxmax, groupby(...).mean().        *)
(***************************************************************************)
RECURSIVE SumCells(_, _)
\* the sum of the numeric cells among the first n of a column
SumCells(col, n) ==
    IF n = 0 THEN Rat(0, 1)
    ELSE IF IsNum(col[n]) THEN RatAdd(SumCells(col, n - 1), Val(col[n]))
    ELSE SumCells(col, n - 1)

NumericAt(col) == {i \in 1..Len(col) : IsNum(col[i])}

\* Series.mean(): nan cells are skipped; the mean of nothing is nan
MeanCell(col) ==
    IF NumericAt(col) = {} THEN NaN
    ELSE FloatCell(RatDivInt(SumCells(col, Len(col)), Cardinality(NumericAt(col))))

\* round(x, 2) of a mean
RoundCell(c) == IF c.t = "nan" THEN NaN ELSE FloatCell(Round2(Val(c)))

\* a variant of IdxMax: the last position holding the greatest value
IdxMaxLast(col) ==
    CHOOSE i \in NumericAt(col) :
        /\ \A j \in NumericAt(col) : ~RatLess(Val(col[i]), Val(col[j]))
        /\ \A j \in NumericAt(col) : j > i => RatLess(Val(col[j]), Val(col[i]))

\* Series.idxmax(): the first position holding the greatest value
IdxMax(col) ==
    CHOOSE i \in NumericAt(col) :
        /\ \A j \in NumericAt(col) : ~RatLess(Val(col[i]), Val(col[j]))
        /\ \A j \in NumericAt(col) : j < i => RatLess(Val(col[j]), Val(col[i]))

\* the order of texts as strings: digits sort before letters
TextLess(a, b) ==
    IF a.k = "txt" /\ b.k = "txt" THEN StrRank(a.s) < StrRank(b.s)
    ELSE IF a.k = "txt" THEN FALSE
    ELSE IF b.k = "txt" THEN TRUE
    ELSE \/ RatLess([n |-> a.n, d |-> a.d], [n |-> b.n, d |-> b.d])
         \/ a.n = b.n /\ a.d = b.d /\ a.k = "int" /\ b.k = "dec"

\* the order groupby sorts its keys in: numbers first, then strings
KeyLess(a, b) ==
    IF IsNum(a) /\ IsNum(b)
    THEN \/ RatLess(Val(a), Val(b))
         \/ Val(a) = Val(b) /\ a.t = "int" /\ b.t = "float"
    ELSE IF IsNum(a) THEN TRUE
    ELSE IF IsNum(b) THEN FALSE
    ELSE TextLess(a.x, b.x)

RECURSIVE SortKeys(_)
SortKeys(S) ==
    IF S = {} THEN <<>>
    ELSE LET m == CHOOSE k \in S : \A o \in S \ {k} : KeyLess(k, o)
         IN  <<m>> \o SortKeys(S \ {m})

\* the keys of df.groupby(by): the distinct non-nan values, sorted
GroupKeys(t, by) ==
    SortKeys({t.rows[i][by] : i \in {j \in 1..Len(t.rows) : t.rows[j][by].t # "nan"}})

RECURSIVE SelectCells(_, _, _, _)
\* the cells of column c in the rows whose column by holds key, in row order
SelectCells(t, by, key, c) ==
    IF Len(t.rows) = 0 THEN <<>>
    ELSE LET rest == SelectCells(Frame(t.cols, Tail(t.rows)), by, key, c)
         IN  IF Head(t.rows)[by] = key THEN <<Head(t.rows)[c]>> \o rest ELSE rest

\* df.groupby(by)[c].mean(): one (key, mean) per group, in key order
GroupMeans(t, by, c) ==
    LET keys == GroupKeys(t, by)
    IN  [g \in 1..Len(keys) |->
           [key |-> keys[g], mean |-> MeanCell(SelectCells(t, by, keys[g], c))]]

MeansColumn(gm) == [g \in 1..Len(gm) |-> gm[g].mean]

HasStr(t, c) == \E i \in 1..Len(t.rows) : t.rows[i][c].t = "str"

(***************************************************************************)
(* SummaryMetrics, as get_metrics and the module level compute them: the   *)
(* dictionary's entries are evaluated in order and the first exception     *)
(* ends the evaluation.                                                    *)
(***************************************************************************)
NoMetrics == [avgPerf |-> NaN, avgSalary |-> NaN, avgAttendance |-> NaN,
              topPerformer |-> NaN, topDept |-> NaN, high |-> 0, total |-> 0]

\* the exception lines 26-30 raise on table t ("" when none does)
MetricsExc(t) ==
    IF ~HasColumn(t, "PerformanceScore") THEN "KeyError"
    ELSE IF HasStr(t, "PerformanceScore") THEN "TypeError"
    ELSE IF ~HasColumn(t, "MonthlySalary") THEN "KeyError"
    ELSE IF HasStr(t, "MonthlySalary") THEN "TypeError"
    ELSE IF ~HasColumn(t, "AttendanceRate (%)") THEN "KeyError"
    ELSE IF HasStr(t, "AttendanceRate (%)") THEN "TypeError"
    ELSE IF NumericAt(Column(t, "PerformanceScore")) = {} THEN "ValueError"
    ELSE IF ~HasColumn(t, "Name") THEN "KeyError"
    ELSE IF ~HasColumn(t, "Department") THEN "KeyError"
    ELSE IF NumericAt(MeansColumn(GroupMeans(t, "Department", "PerformanceScore"))) = {}
         THEN "ValueError"
    ELSE ""

TopPerformer(t) == t.rows[IdxMax(Column(t, "PerformanceScore"))]["Name"]

TopDepartment(t) ==
    LET gm == GroupMeans(t, "Department", "PerformanceScore")
    IN  gm[IdxMax(MeansColumn(gm))].key

HighCount(t) ==
    Cardinality({i \in 1..Len(t.rows) :
                   t.rows[i]["Performance_Level"] = StrCell(TTxt("High"))})

\* the five values of lines 26-30 (and the first five entries of get_metrics)
CoreOf(t) ==
    [NoMetrics EXCEPT
       !.avgPerf       = RoundCell(MeanCell(Column(t, "PerformanceScore"))),
       !.avgSalary     = RoundCell(MeanCell(Column(t, "MonthlySalary"))),
       !.avgAttendance = RoundCell(MeanCell(Column(t, "AttendanceRate (%)"))),
       !.topPerformer  = TopPerformer(t),
       !.topDept       = TopDepartment(t)]

(***************************************************************************)
(* The source files the runs are given.                                    *)
(***************************************************************************)
\* records of employee_performance_200.csv, fields in SourceColumns' order
RowA == <<TTxt("A"), TTxt("Sales"), TInt(0), TInt(5), TInt(1000), TInt(90),
          TDec(45, 10), TTxt("ok")>>
RowB == <<TTxt("B"), TTxt("Eng"), TInt(2), TInt(4), TInt(2000), TInt(80),
          TDec(45, 10), TEmpty>>
RowC == <<TEmpty, TTxt("Eng"), TEmpty, TInt(3), TInt(1000), TInt(90),
          TDec(4499999, 1000000), TEmpty>>
RowD == <<TTxt("D"), TEmpty, TDec(5, 10), TInt(1), TInt(2000), TEmpty,
          TDec(35, 10), TTxt("ok")>>
RowE == <<TTxt("E"), TTxt("Sales"), TInt(2), TEmpty, TEmpty, TInt(80),
          TDec(3499999, 1000000), TTxt("ok")>>
RowF == <<TTxt("F"), TTxt("Eng"), TInt(-1), TInt(2), TInt(1000), TInt(90),
          TEmpty, TEmpty>>

RawRows == {RowA, RowB, RowC, RowD, RowE, RowF}

\* the positions of SourceColumns a file without column drop keeps
Kept(drop) == SelectSeq([j \in 1..Len(SourceColumns) |-> j],
                        LAMBDA j : SourceColumns[j] # drop)

\* a source file with the given records and without column drop ("": all)
SourceFile(rows, drop) ==
    LET keep == Kept(drop)
    IN  [exists |-> TRUE,
         lines  |-> <<[j \in 1..Len(keep) |-> TTxt(SourceColumns[keep[j]])]>> \o
                    [i \in 1..Len(rows) |->
                       [j \in 1..Len(keep) |-> rows[i][keep[j]]]]]

\* the single run's inputs: no file, or a table with at most one column absent
SourceFiles ==
    {NoFile} \cup
    {SourceFile(rows, drop) : rows \in SeqsUpTo(RawRows, MaxRows),
                              drop \in {""} \cup Range(SourceColumns)}

\* the inputs of two concurrent runs
RunSources ==
    {SourceFile(<<>>, ""), SourceFile(<<RowA>>, ""), SourceFile(<<RowB, RowE>>, "")}

(***************************************************************************)
(* State.                                                                  *)
(*   store       processed_data.csv                                        *)
(*   pc[p]       where run p of app.py stands                              *)
(*   df[p]       the module-level DataFrame object df of run p             *)
(*   err[p]      the exception that ended run p ("" while none)            *)
(*   wpos[p]     the offset (in lines) of run p's handle on the store      *)
(*   wstate[p]   "none", "open", "closed": run p's to_csv                  *)
(*   core[p]     avg_perf ... top_dept of run p                            *)
(*   ingested[p] the value df[p] held when the derivation received it      *)
(*   lastWriter  the run whose to_csv closed the store last (0: none)      *)
(*   resp        the last response of a route called directly              *)
(*   fpc, fdata, fmetrics, fresult   the dashboard's fetch_data            *)
(*   source[p]   employee_performance_200.csv as run p finds it            *)
(***************************************************************************)
Procs == {1, 2}

NoTable == Frame(<<>>, <<>>)

NoResponse == [route |-> "none", status |-> 0, exc |-> "", records |-> <<>>,
               metrics |-> NoMetrics, depts |-> <<>>, read |-> NoFile]

NoResult == [df |-> <<>>, metrics |-> NoMetrics, error |-> ""]

Crash(p, exc) ==
    /\ pc' = [pc EXCEPT ![p] = "crashed"]
    /\ err' = [err EXCEPT ![p] = exc]

Goto(p, label) ==
    /\ pc' = [pc EXCEPT ![p] = label]
    /\ err' = err

(***************************************************************************)
(* The write path: app.py's module level, run p.                           *)
(***************************************************************************)
\* line 8: df = pd.read_csv("employee_performance_200.csv")
Load(p) ==
    /\ pc[p] = "start"
    /\ IF ReadCsv(source[p]).ok
       THEN /\ df' = [df EXCEPT ![p] = ReadCsv(source[p]).table]
            /\ Goto(p, "fillna")
       ELSE /\ df' = df
            /\ Crash(p, ReadCsv(source[p]).exc)
    /\ UNCHANGED <<source, store, wpos, wstate, core, ingested, lastWriter,
                   resp, fpc, fdata, fmetrics, fresult>>

\* line 11: df.fillna(0, inplace=True)
FillMissing(p) ==
    /\ pc[p] = "fillna"
    /\ df' = [df EXCEPT ![p] = Fillna(df[p])]
    /\ ingested' = [ingested EXCEPT ![p] = Fillna(df[p])]
    /\ Goto(p, "efficiency")
    /\ UNCHANGED <<source, store, wpos, wstate, core, lastWriter,
                   resp, fpc, fdata, fmetrics, fresult>>

\* the exception of line 14 on table t
EfficiencyExc(t) ==
    IF ~HasColumn(t, "ProjectsCompleted") \/ ~HasColumn(t, "ExperienceYears")
    THEN "KeyError"
    ELSE IF HasStr(t, "ProjectsCompleted") \/ HasStr(t, "ExperienceYears")
    THEN "TypeError"
    ELSE ""

\* the table df names after line 14
WithEfficiency(t) ==
    SetColumn(t, "Efficiency (%)",
              [i \in 1..Len(t.rows) |->
                 EfficiencyOf(t.rows[i]["ProjectsCompleted"],
                              t.rows[i]["ExperienceYears"])])

\* line 14: df['Efficiency (%)'] = ...
DeriveEfficiency(p) ==
    /\ pc[p] = "efficiency"
    /\ IF EfficiencyExc(df[p]) # ""
       THEN /\ df' = df
            /\ Crash(p, EfficiencyExc(df[p]))
       ELSE /\ df' = [df EXCEPT ![p] = WithEfficiency(df[p])]
            /\ Goto(p, "level")
    /\ UNCHANGED <<source, store, wpos, wstate, core, ingested, lastWriter,
                   resp, fpc, fdata, fmetrics, fresult>>

\* the exception of lines 15-17 on table t
LevelExc(t) ==
    IF ~HasColumn(t, "PerformanceScore") THEN "KeyError"
    ELSE IF HasStr(t, "PerformanceScore") THEN "TypeError"
    ELSE ""

\* the table df names after lines 15-17
WithLevel(t) ==
    SetColumn(t, "Performance_Level",
              [i \in 1..Len(t.rows) |->
                 StrCell(TTxt(LevelOf(t.rows[i]["PerformanceScore"])))])

\* lines 15-17: df['Performance_Level'] = ...
DeriveLevel(p) ==
    /\ pc[p] = "level"
    /\ IF LevelExc(df[p]) # ""
       THEN /\ df' = df
            /\ Crash(p, LevelExc(df[p]))
       ELSE /\ df' = [df EXCEPT ![p] = WithLevel(df[p])]
            /\ Goto(p, "tocsv")
    /\ UNCHANGED <<source, store, wpos, wstate, core, ingested, lastWriter,
                   resp, fpc, fdata, fmetrics, fresult>>

\* line 20, to_csv's open(path, "w"): the store is created or truncated
OpenStore(p) ==
    /\ pc[p] = "tocsv"
    /\ store' = [exists |-> TRUE, lines |-> <<>>]
    /\ wpos' = [wpos EXCEPT ![p] = 0]
    /\ wstate' = [wstate EXCEPT ![p] = "open"]
    /\ Goto(p, "write")
    /\ UNCHANGED <<source, df, core, ingested, lastWriter,
                   resp, fpc, fdata, fmetrics, fresult>>

\* lines with chunk written at offset pos (holes where nothing was written)
WriteAt(lines, pos, chunk) ==
    [i \in 1..(IF Len(lines) > pos + Len(chunk) THEN Len(lines) ELSE pos + Len(chunk)) |->
       IF i > pos /\ i <= pos + Len(chunk) THEN chunk[i - pos]
       ELSE IF i <= Len(lines) THEN lines[i]
       ELSE Hole]

\* line 20, to_csv's writes: the buffer is flushed at some line boundary;
\* the flush of the last line closes the file
WriteLines(p) ==
    /\ pc[p] = "write"
    /\ \E k \in 1..(Len(ToCsv(df[p])) - wpos[p]) :
         /\ store' = [store EXCEPT !.lines =
                        WriteAt(store.lines, wpos[p],
                                SubSeq(ToCsv(df[p]), wpos[p] + 1, wpos[p] + k))]
         /\ wpos' = [wpos EXCEPT ![p] = wpos[p] + k]
         /\ IF wpos[p] + k = Len(ToCsv(df[p]))
            THEN /\ wstate' = [wstate EXCEPT ![p] = "closed"]
                 /\ lastWriter' = p
                 /\ Goto(p, "core")
            ELSE /\ UNCHANGED <<wstate, lastWriter, pc, err>>
    /\ UNCHANGED <<source, df, core, ingested, resp, fpc, fdata, fmetrics, fresult>>

\* lines 26-30: avg_perf, avg_salary, avg_attendance, top_performer, top_dept
CoreMetrics(p) ==
    /\ pc[p] = "core"
    /\ IF MetricsExc(df[p]) # ""
       THEN /\ core' = core
            /\ Crash(p, MetricsExc(df[p]))
       ELSE /\ core' = [core EXCEPT ![p] = CoreOf(df[p])]
            /\ Goto(p, "run")
    /\ UNCHANGED <<source, store, df, wpos, wstate, ingested, lastWriter,
                   resp, fpc, fdata, fmetrics, fresult>>

\* lines 77-78: app.run binds the one port; a second server cannot
AppRun(p) ==
    /\ pc[p] = "run"
    /\ IF \E q \in Procs : pc[q] = "serving"
       THEN Crash(p, "OSError")
       ELSE Goto(p, "serving")
    /\ UNCHANGED <<source, store, df, wpos, wstate, core, ingested, lastWriter,
                   resp, fpc, fdata, fmetrics, fresult>>

(***************************************************************************)
(* The routes of the serving run p.                                        *)
(***************************************************************************)
\* a variant of RouteTable: the routes serve the module-level df
RouteTableCached(p) == Loaded(df[p])

\* what the three routes' pd.read_csv('processed_data.csv') returns
RouteTable(p) == ReadCsv(store)

ServerError(route, exc) ==
    [NoResponse EXCEPT !.route = route, !.status = 500, !.exc = exc, !.read = store]

\* lines 42-45: get_data
DataResponse(p) ==
    IF ~RouteTable(p).ok THEN ServerError("data", RouteTable(p).exc)
    ELSE [NoResponse EXCEPT !.route = "data", !.status = 200, !.read = store,
                            !.records = RouteTable(p).table.rows]

\* a variant of MetricsOf: "Total Employees" takes the High count's expression
MetricsOfMiscounted(t) ==
    [CoreOf(t) EXCEPT !.high = HighCount(t), !.total = HighCount(t)]

\* the seven entries of get_metrics' dictionary on table t
MetricsOf(t) ==
    [CoreOf(t) EXCEPT !.high = HighCount(t), !.total = Len(t.rows)]

\* lines 48-60: get_metrics
MetricsResponse(p) ==
    LET t == RouteTable(p).table
    IN  IF ~RouteTable(p).ok THEN ServerError("metrics", RouteTable(p).exc)
        ELSE IF MetricsExc(t) # "" THEN ServerError("metrics", MetricsExc(t))
        ELSE IF ~HasColumn(t, "Performance_Level") THEN ServerError("metrics", "KeyError")
        ELSE [NoResponse EXCEPT !.route = "metrics", !.status = 200, !.read = store,
                                !.metrics = MetricsOf(t)]

\* df.groupby('Department')['PerformanceScore'].mean().round(2).to_dict()
DepartmentStats(t) ==
    LET gm == GroupMeans(t, "Department", "PerformanceScore")
    IN  [g \in 1..Len(gm) |-> [key |-> gm[g].key, mean |-> RoundCell(gm[g].mean)]]

\* lines 63-72: get_department_stats
DepartmentResponse(p) ==
    LET t == RouteTable(p).table
    IN  IF ~RouteTable(p).ok THEN ServerError("department", RouteTable(p).exc)
        ELSE IF ~HasColumn(t, "Department") \/ ~HasColumn(t, "PerformanceScore")
        THEN ServerError("department", "KeyError")
        ELSE IF HasStr(t, "PerformanceScore") THEN ServerError("department", "TypeError")
        ELSE [NoResponse EXCEPT !.route = "department", !.status = 200, !.read = store,
                                !.depts = DepartmentStats(t)]

GetData(p) ==
    /\ pc[p] = "serving"
    /\ resp' = DataResponse(p)
    /\ UNCHANGED <<source, store, pc, df, err, wpos, wstate, core, ingested,
                   lastWriter, fpc, fdata, fmetrics, fresult>>

GetMetrics(p) ==
    /\ pc[p] = "serving"
    /\ resp' = MetricsResponse(p)
    /\ UNCHANGED <<source, store, pc, df, err, wpos, wstate, core, ingested,
                   lastWriter, fpc, fdata, fmetrics, fresult>>

GetDepartmentStats(p) ==
    /\ pc[p] = "serving"
    /\ resp' = DepartmentResponse(p)
    /\ UNCHANGED <<source, store, pc, df, err, wpos, wstate, core, ingested,
                   lastWriter, fpc, fdata, fmetrics, fresult>>

(***************************************************************************)
(* The dashboard's fetch_data (dashboard_app.py lines 21-32).              *)
(***************************************************************************)
Serving == {p \in Procs : pc[p] = "serving"}

\* line 24: requests.get(API_URL/api/data); no server: ConnectionError
FetchData ==
    /\ fpc = "idle"
    /\ IF Serving = {}
       THEN /\ fresult' = [NoResult EXCEPT !.error = "ConnectionError"]
            /\ fpc' = "done"
            /\ fdata' = fdata
       ELSE /\ fdata' = DataResponse(CHOOSE p \in Serving : TRUE)
            /\ fpc' = "metrics"
            /\ fresult' = fresult
    /\ UNCHANGED <<source, store, pc, df, err, wpos, wstate, core, ingested,
                   lastWriter, resp, fmetrics>>

\* line 25: requests.get(API_URL/api/metrics)
FetchMetrics ==
    /\ fpc = "metrics"
    /\ fmetrics' = MetricsResponse(CHOOSE p \in Serving : TRUE)
    /\ fpc' = "status"
    /\ UNCHANGED <<source, store, pc, df, err, wpos, wstate, core, ingested,
                   lastWriter, resp, fdata, fresult>>

\* lines 26-32: raise_for_status twice, then (df, metrics, None)
FetchReturn ==
    /\ fpc = "status"
    /\ fresult' = IF fdata.status # 200 \/ fmetrics.status # 200
                  THEN [NoResult EXCEPT !.error = "HTTPError"]
                  ELSE [df |-> fdata.records, metrics |-> fmetrics.metrics, error |-> ""]
    /\ fpc' = "done"
    /\ UNCHANGED <<source, store, pc, df, err, wpos, wstate, core, ingested,
                   lastWriter, resp, fdata, fmetrics>>

\* the cache entry (ttl=30) expires or is cleared: the next rerun fetches again
FetchAgain ==
    /\ fpc = "done"
    /\ fpc' = "idle"
    /\ fdata' = NoResponse
    /\ fmetrics' = NoResponse
    /\ fresult' = NoResult
    /\ UNCHANGED <<source, store, pc, df, err, wpos, wstate, core, ingested,
                   lastWriter, resp>>

(***************************************************************************)
(* Specifications.  Spec: one run of app.py on any source file, then the   *)
(* routes and the dashboard.  SpecRuns: two runs of app.py side by side.   *)
(***************************************************************************)
InitCommon ==
    /\ store = NoFile
    /\ df = [p \in Procs |-> NoTable]
    /\ err = [p \in Procs |-> ""]
    /\ wpos = [p \in Procs |-> 0]
    /\ wstate = [p \in Procs |-> "none"]
    /\ core = [p \in Procs |-> NoMetrics]
    /\ ingested = [p \in Procs |-> NoTable]
    /\ lastWriter = 0
    /\ resp = NoResponse
    /\ fpc = "idle"
    /\ fdata = NoResponse
    /\ fmetrics = NoResponse
    /\ fresult = NoResult

Init ==
    /\ source \in [Procs -> SourceFiles]
    /\ source[2] = NoFile
    /\ pc = [p \in Procs |-> IF p = 1 THEN "start" ELSE "off"]
    /\ InitCommon

InitRuns ==
    /\ source \in [Procs -> RunSources]
    /\ pc = [p \in Procs |-> "start"]
    /\ InitCommon

Run(p) ==
    \/ Load(p)
    \/ FillMissing(p)
    \/ DeriveEfficiency(p)
    \/ DeriveLevel(p)
    \/ OpenStore(p)
    \/ WriteLines(p)
    \/ CoreMetrics(p)
    \/ AppRun(p)

Route(p) ==
    \/ GetData(p)
    \/ GetMetrics(p)
    \/ GetDepartmentStats(p)

Fetch ==
    \/ FetchData
    \/ FetchMetrics
    \/ FetchReturn
    \/ FetchAgain

Next ==
    \/ \E p \in Procs : Run(p)
    \/ \E p \in Procs : Route(p)
    \/ Fetch

Spec == Init /\ [][Next]_vars

SpecRuns == InitRuns /\ [][Next]_vars

(***************************************************************************)
(* Properties.                                                             *)
(***************************************************************************)
High   == StrCell(TTxt("High"))
Medium == StrCell(TTxt("Medium"))
Low    == StrCell(TTxt("Low"))

\* the runs whose df holds the named column
Having(c) == {p \in Procs : HasColumn(df[p], c)}

Rows(t) == 1..Len(t.rows)

\* the text of record i's field c in the source file run p read
SourceText(p, i, c) ==
    LET header == source[p].lines[1]
    IN  source[p].lines[i + 1][CHOOSE j \in 1..Len(header) : header[j].s = c]

\* C3: every record of a derived table carries exactly one level, and it is
\* High iff score >= 4.5, Medium iff 3.5 <= score < 4.5, Low iff score < 3.5;
\* a score absent in the source (zero-filled) is Low.
C3_LevelPartition ==
    \A p \in Having("Performance_Level") : \A i \in Rows(df[p]) :
        LET x   == df[p].rows[i]["PerformanceScore"]
            lvl == df[p].rows[i]["Performance_Level"]
        IN  /\ lvl \in {High, Medium, Low}
            /\ lvl = High   <=> 2 * x.n >= 9 * x.d
            /\ lvl = Medium <=> (2 * x.n >= 7 * x.d /\ 2 * x.n < 9 * x.d)
            /\ lvl = Low    <=> 2 * x.n < 7 * x.d
            /\ SourceText(p, i, "PerformanceScore") = TEmpty => lvl = Low

\* a derived table holds the four boundary scores' neighbours: 4.5 as High
\* beside 4.499999 as Medium
C3_Witness ==
    \E p \in Having("Performance_Level") : \E i, j \in Rows(df[p]) :
        /\ Val(df[p].rows[i]["PerformanceScore"]) = Rat(45, 10)
        /\ df[p].rows[i]["Performance_Level"] = High
        /\ Val(df[p].rows[j]["PerformanceScore"]) = Rat(4499999, 1000000)
        /\ df[p].rows[j]["Performance_Level"] = Medium

\* C4 as stated: Efficiency = ProjectsCompleted / max(ExperienceYears, 1) * 10,
\* finite and >= 0, for every record (years and projects as ingested).
C4_EfficiencyByMax ==
    \A p \in Having("Efficiency (%)") : \A i \in Rows(df[p]) :
        LET e   == df[p].rows[i]["Efficiency (%)"]
            prj == Val(ingested[p].rows[i]["ProjectsCompleted"])
            yrs == Val(ingested[p].rows[i]["ExperienceYears"])
            m   == IF yrs.n < yrs.d THEN Rat(1, 1) ELSE yrs
        IN  /\ e.t = "float" /\ e.d > 0
            /\ e.n * m.n * prj.d = 10 * prj.n * m.d * e.d
            /\ e.n >= 0

\* C4 amended: Efficiency = ProjectsCompleted / d * 10 where d is 1 when
\* ExperienceYears is exactly 0 (absent and zero-filled included) and
\* ExperienceYears otherwise; d is never zero and Efficiency is finite; it is
\* >= 0 whenever ExperienceYears >= 0 and ProjectsCompleted >= 0.
C4_EfficiencyByZeroReplaced ==
    \A p \in Having("Efficiency (%)") : \A i \in Rows(df[p]) :
        LET e   == df[p].rows[i]["Efficiency (%)"]
            prj == Val(ingested[p].rows[i]["ProjectsCompleted"])
            yrs == Val(ingested[p].rows[i]["ExperienceYears"])
            dv  == IF yrs.n = 0 THEN Rat(1, 1) ELSE yrs
        IN  /\ e.t = "float" /\ e.d > 0
            /\ dv.n # 0
            /\ e.n * dv.n * prj.d = 10 * prj.n * dv.d * e.d
            /\ (yrs.n >= 0 /\ prj.n >= 0) => e.n >= 0

\* a derived table holds a record whose years were absent (Efficiency 30 from
\* 3 projects) beside one with half a year (Efficiency 20 from 1 project)
C4_Witness ==
    \E p \in Having("Efficiency (%)") : \E i, j \in Rows(df[p]) :
        /\ SourceText(p, i, "ExperienceYears") = TEmpty
        /\ Val(df[p].rows[i]["Efficiency (%)"]) = Rat(30, 1)
        /\ Val(ingested[p].rows[j]["ExperienceYears"]) = Rat(1, 2)
        /\ Val(df[p].rows[j]["Efficiency (%)"]) = Rat(20, 1)

\* the mean PerformanceScore of department k in table t
DeptMean(t, k) == Val(MeanCell(SelectCells(t, "Department", k, "PerformanceScore")))

\* the departments of t (a record without one belongs to none)
Depts(t) == {t.rows[i]["Department"] : i \in Rows(t)} \ {NaN}

\* the first record of department k in table t
FirstRow(t, k) == CHOOSE i \in Rows(t) :
                    /\ t.rows[i]["Department"] = k
                    /\ \A j \in Rows(t) : t.rows[j]["Department"] = k => i <= j

\* name is the Name of the earliest record of t holding the greatest score
EarliestBest(t, name) ==
    \E i \in Rows(t) :
        /\ name = t.rows[i]["Name"]
        /\ \A j \in Rows(t) : ~RatLess(Val(t.rows[i]["PerformanceScore"]),
                                       Val(t.rows[j]["PerformanceScore"]))
        /\ \A j \in Rows(t) : j < i => RatLess(Val(t.rows[j]["PerformanceScore"]),
                                                Val(t.rows[i]["PerformanceScore"]))

\* the departments of t with the greatest mean score
BestDepts(t) == {k \in Depts(t) : \A o \in Depts(t) : ~RatLess(DeptMean(t, k), DeptMean(t, o))}

\* k is the best department of t whose first record comes earliest
FirstEncounteredBest(t, k) ==
    /\ k \in BestDepts(t)
    /\ \A o \in BestDepts(t) : FirstRow(t, k) <= FirstRow(t, o)

\* k is the best department of t that comes first in the sorted order of names
FirstSortedBest(t, k) ==
    /\ k \in BestDepts(t)
    /\ \A o \in BestDepts(t) \ {k} : KeyLess(k, o)

\* the (table, metrics) pairs in the state: what get_metrics answered from the
\* store it read, and each run's module-level values from its df
MetricsPairs ==
    {<<ReadCsv(r.read).table, r.metrics>> :
        r \in {x \in {resp, fmetrics} : x.route = "metrics" /\ x.status = 200}}
    \cup {<<df[p], core[p]>> : p \in {q \in Procs : pc[q] \in {"run", "serving"}}}

\* C6 as stated: Top Performer is the earliest record with the greatest score,
\* and Top Department the department of greatest mean score that is encountered
\* first in the record sequence.
C6_TiesByFirstOccurrence ==
    \A tm \in MetricsPairs :
        /\ EarliestBest(tm[1], tm[2].topPerformer)
        /\ FirstEncounteredBest(tm[1], tm[2].topDept)

\* C6 amended: Top Performer is the Name of the earliest record with the
\* greatest score; Top Department is a department of greatest mean score, and
\* among departments tied for it the one first in the sorted order of names.
C6_TiesPerformerFirstDeptSorted ==
    \A tm \in MetricsPairs :
        /\ EarliestBest(tm[1], tm[2].topPerformer)
        /\ FirstSortedBest(tm[1], tm[2].topDept)

\* get_metrics answered for a table in which two records of different names
\* tie for the greatest score and two departments tie for the greatest mean,
\* the department chosen not being the one encountered first
C6_Witness ==
    /\ resp.route = "metrics" /\ resp.status = 200
    /\ LET t == ReadCsv(resp.read).table
       IN  /\ \E i, j \in Rows(t) :
                /\ i < j
                /\ t.rows[i]["Name"] # t.rows[j]["Name"]
                /\ t.rows[i]["PerformanceScore"] = t.rows[j]["PerformanceScore"]
                /\ EarliestBest(t, t.rows[i]["Name"])
                /\ resp.metrics.topPerformer = t.rows[i]["Name"]
           /\ Cardinality(BestDepts(t)) = 2
           /\ ~FirstEncounteredBest(t, resp.metrics.topDept)

\* the runs whose to_csv has closed
Written == {p \in Procs : wstate[p] = "closed"}

\* C7: the table a run materialized, re-read as the routes read it, equals the
\* run's in-memory table, record for record and field for field.
C7_RoundTrip ==
    \A p \in Written :
        store.lines = ToCsv(df[p]) =>
            /\ ReadCsv(store).ok
            /\ ReadCsv(store).table = df[p]

RequiredColumns == {"Name", "Department", "ExperienceYears", "ProjectsCompleted",
                    "MonthlySalary", "AttendanceRate (%)", "PerformanceScore"}

\* the source file of run p is missing, or lacks a required column
LoadMustFail(p) ==
    \/ ~source[p].exists
    \/ \E c \in RequiredColumns :
         \A j \in 1..Len(source[p].lines[1]) : source[p].lines[1][j].s # c

\* C8: a run whose source is missing or lacks a required column never serves,
\* and writes nothing: the store stays as it was.
C8_LoadAllOrNothing ==
    \A p \in Procs :
        (pc[p] # "off" /\ LoadMustFail(p)) =>
            /\ pc[p] # "serving"
            /\ wstate[p] = "none"
            /\ store = NoFile

\* the table object the derivation of run p was handed: the object df names
DeriverInput(p) == df[p]

\* C9: once the derivation has run, the table it was handed is as it was.
C9_InputNotMutated ==
    \A p \in Procs :
        pc[p] \in {"level", "tocsv", "write", "core", "run", "serving"} =>
            DeriverInput(p) = ingested[p]

\* the responses in the state: of a route called directly, of fetch_data's two
Responses == {r \in {resp, fdata, fmetrics} : r.route # "none"}

\* the complete contents the store has had: none before the first run, and
\* the whole table of every run that has opened it
CompleteStores ==
    {NoFile} \cup
    {[exists |-> TRUE, lines |-> ToCsv(df[p])] : p \in {q \in Procs : wstate[q] # "none"}}

\* the response was computed from a completely written store that holds a
\* header and no record
ReadNoRecords(r) ==
    /\ r.read.exists /\ Len(r.read.lines) = 1
    /\ r.read \in CompleteStores

\* C1: get_metrics and get_department_stats on a store with zero records end
\* in the error UndefinedAggregate: not in a value, not in another exception.
C1_EmptyAggregateUndefined ==
    \A r \in Responses :
        (r.route \in {"metrics", "department"} /\ ReadNoRecords(r)) =>
            /\ r.status # 200
            /\ r.exc = "UndefinedAggregate"

\* C2: every read of the store by a route sees the complete previous contents
\* or the complete table of one run, and once the runs' writes are over the
\* store holds the table of the run that wrote last.
C2_AtomicOverwrite ==
    /\ \A r \in Responses : r.read \in CompleteStores
    /\ (lastWriter # 0 /\ \A p \in Procs : wstate[p] # "open") =>
           store.lines = ToCsv(df[lastWriter])

\* C5: when fetch_data returns (df, metrics) from two requests that read the
\* same store contents, metrics' Total Employees is the number of records.
C5_TotalIsRecordCount ==
    (fpc = "done" /\ fresult.error = "" /\ fdata.read = fmetrics.read) =>
        fresult.metrics.total = Len(fresult.df)

\* fetch_data returned two records and a total of two, both requests having
\* read the same store
C5_Witness ==
    /\ fpc = "done" /\ fresult.error = ""
    /\ fdata.read = fmetrics.read
    /\ Len(fresult.df) = 2
    /\ fresult.metrics.total = 2

\* what route must answer from the store as it is now
Fresh(route, r) ==
    LET now == ReadCsv(store)
    IN  /\ ~now.ok => (r.status = 500 /\ r.exc = now.exc)
        /\ r.status = 200 =>
             /\ now.ok
             /\ route = "data" => r.records = now.table.rows
             /\ route = "metrics" =>
                  /\ r.metrics.total = Len(now.table.rows)
                  /\ r.metrics.high = HighCount(now.table)
                  /\ r.metrics.avgPerf =
                       RoundCell(MeanCell(Column(now.table, "PerformanceScore")))
                  /\ EarliestBest(now.table, r.metrics.topPerformer)
                  /\ r.metrics.topDept \in BestDepts(now.table)
             /\ route = "department" =>
                  /\ {r.depts[g].key : g \in 1..Len(r.depts)} = Depts(now.table)
                  /\ \A g \in 1..Len(r.depts) :
                       r.depts[g].mean =
                         FloatCell(Round2(DeptMean(now.table, r.depts[g].key)))

\* C10: every call of a route answers from the store's contents at the call:
\* a step that produces a response produces the one the current store gives.
C10_ReadsStoreAtCall ==
    [][/\ resp' # resp => Fresh(resp'.route, resp')
       /\ fdata' # fdata /\ fdata'.route # "none" => Fresh("data", fdata')
       /\ fmetrics' # fmetrics /\ fmetrics'.route # "none" => Fresh("metrics", fmetrics')]_vars

\* get_metrics answered from a store another run had overwritten: its total is
\* the store's record count and differs from the serving run's own table
C10_Witness ==
    /\ resp.route = "metrics" /\ resp.status = 200
    /\ resp.read = store
    /\ \E p \in Procs :
         /\ pc[p] = "serving"
         /\ lastWriter # p
         /\ resp.metrics.total = Len(store.lines) - 1
         /\ resp.metrics.total # Len(df[p].rows)

=============================================================================
